---- MODULE Spec2Model ----
(***************************************************************************)
(* Chunk lifecycle of ppdb-cloud-functions: the PpdbReplicaChunk tracking  *)
(* table as written by the track_chunk Pub/Sub handler and by the          *)
(* promote_chunks HTTP handler.                                            *)
(***************************************************************************)
EXTENDS Integers, Sequences, FiniteSets, TLC

\* ---------------------------------------------------------------- bounds
MaxChunk == 3
MaxTime == 2
MaxJobs == 2
MaxRuns == 2
MaxInvocations == 2

Ids == 1..MaxChunk

\* ------------------------------------------------------- the table's rows
\* SQL NULL of a timestamp column: a timestamp column holds {} or {t}.
NULL == {}

PENDING == "pending"
STAGED == "staged"
PROMOTED == "promoted"

\* the columns a status event's "values" mapping may carry
Columns == {"status", "staged_at", "promoted_at"}

\* ---------------------------------------------------------------- state
VARIABLES
    tbl,    \* PpdbReplicaChunk: tbl[i] is the sequence of rows whose
            \* apdb_replica_chunk is i (at most one under the primary key)
    now,    \* the wall clock read by the registry when it marks promotion
    last,   \* what the most recent handler invocation did and returned
    jobs,   \* the job names of the launch requests sent to the job service
    trig,   \* what the most recent trigger_stage_chunk invocation did
    manifests,  \* the content of chunk_<id>.manifest.json of each chunk
    staging,    \* staging[table][id]: how many times the chunk's file was
                \* appended to the table's staging table
    topic,      \* the messages published to the status topic, in order
    job,        \* what the most recent Staging Job run did, and how many
                \* runs there have been
    ins,        \* the track_chunk invocations in flight: where each is in
                \* its INSERT transaction
    passes      \* the promote_chunks invocations in flight: where each is
                \* in its pass and the list it holds

registryVars == <<tbl, last>>

triggerVars == <<jobs, trig>>

stageVars == <<manifests, staging, topic, job>>

concurrentVars == <<ins, passes>>

vars == <<tbl, now, last, jobs, trig, manifests, staging, topic, job, ins, passes>>

\* ----------------------------------------------------------- SQL helpers
\* a new row: the columns given by the INSERT, NULL for the others
NewRow(insert_values) ==
    [c \in Columns |->
        IF c \in DOMAIN insert_values THEN insert_values[c] ELSE NULL]

\* UPDATE ... SET values: the given columns overwrite the row's
SetValues(row, values) ==
    [c \in Columns |-> IF c \in DOMAIN values THEN values[c] ELSE row[c]]

HasRow(t, i) == Len(t[i]) > 0

Present(t) == {i \in Ids : HasRow(t, i)}

NumRows(t) == LET RECURSIVE Sum(_)
                  Sum(S) == IF S = {} THEN 0
                            ELSE LET i == CHOOSE j \in S : TRUE
                                 IN Len(t[i]) + Sum(S \ {i})
              IN Sum(Ids)

\* ------------------------------------------------------------ track_chunk
\* _update written as an upsert: a row is created when none matches
_update_upsert(t, chunk_id, values) ==
    IF Len(t[chunk_id]) = 0
    THEN [tbl |-> [t EXCEPT ![chunk_id] = <<NewRow(values)>>],
          rowcount |-> 1,
          raised |-> FALSE]
    ELSE [tbl |-> [t EXCEPT ![chunk_id] =
                      [k \in 1..Len(t[chunk_id]) |-> SetValues(t[chunk_id][k], values)]],
          rowcount |-> Len(t[chunk_id]),
          raised |-> FALSE]

\* _update raising when no row matches, so that the event is not acknowledged
_update_strict(t, chunk_id, values) ==
    [tbl |-> [t EXCEPT ![chunk_id] =
                 [k \in 1..Len(t[chunk_id]) |-> SetValues(t[chunk_id][k], values)]],
     rowcount |-> Len(t[chunk_id]),
     raised |-> Len(t[chunk_id]) = 0]

\* _update: UPDATE table SET values WHERE apdb_replica_chunk = chunk_id;
\* returns the table and the rowcount.  No condition on the row's current
\* status is part of the statement.
_update(t, chunk_id, values) ==
    [tbl |-> [t EXCEPT ![chunk_id] =
                 [k \in 1..Len(t[chunk_id]) |-> SetValues(t[chunk_id][k], values)]],
     rowcount |-> Len(t[chunk_id]),
     raised |-> FALSE]

\* _insert written as an upsert: on a key conflict the new values replace the row
_insert_upsert(t, chunk_id, values) ==
    [tbl |-> [t EXCEPT ![chunk_id] = <<NewRow(values)>>],
     rowcount |-> 1,
     raised |-> FALSE]

\* _insert into a table without the key: every insert adds a row
_insert_append(t, chunk_id, values) ==
    [tbl |-> [t EXCEPT ![chunk_id] = Append(@, NewRow(values))],
     rowcount |-> 1,
     raised |-> FALSE]

\* _insert: INSERT INTO table VALUES (apdb_replica_chunk = chunk_id, **values).
\* The statement raises inside conn.execute when the key already exists and
\* the transaction is rolled back; otherwise one row is added.
_insert(t, chunk_id, values) ==
    IF HasRow(t, chunk_id)
    THEN [tbl |-> t, rowcount |-> 0, raised |-> TRUE]
    ELSE [tbl |-> [t EXCEPT ![chunk_id] = Append(@, NewRow(values))],
          rowcount |-> 1,
          raised |-> FALSE]

\* ------------------------------------------------------ status events
Keys == {"operation", "values", "apdb_replica_chunk"}

EmptyDict == << >>

\* the values an insert event carries: the chunk's first status
InsertValues == {[status |-> PENDING], [status |-> STAGED]}

\* the values of the update event published by update_chunk_status
UpdateValues == {[status |-> STAGED]}

\* the truthiness of data.get("operation"): None (key missing) and "" are falsy
HasOperation(event) == "operation" \in event.keys /\ event.operation # ""

\* the truthiness of data.get("values"): None (key missing) and {} are falsy
HasValues(event) == "values" \in event.keys /\ event.values # EmptyDict

\* the checks with "values" tested for presence only, so that {} passes
Validate_lax(event) ==
    IF ~event.decodable THEN "Malformed or missing Pub/Sub data payload"
    ELSE IF ~HasOperation(event) THEN "Missing 'operation' key"
    ELSE IF event.operation \notin {"insert", "update"} THEN "Unsupported operation"
    ELSE IF "values" \notin event.keys THEN "No 'values' key found"
    ELSE IF "apdb_replica_chunk" \notin event.keys THEN "Missing 'apdb_replica_chunk'"
    ELSE "ok"

\* the checks of track_chunk in the order the handler makes them
Validate(event) ==
    IF ~event.decodable THEN "Malformed or missing Pub/Sub data payload"
    ELSE IF ~HasOperation(event) THEN "Missing 'operation' key"
    ELSE IF event.operation \notin {"insert", "update"} THEN "Unsupported operation"
    ELSE IF ~HasValues(event) THEN "No 'values' key found"
    ELSE IF "apdb_replica_chunk" \notin event.keys THEN "Missing 'apdb_replica_chunk'"
    ELSE "ok"

\* the insert and update events the pipeline produces
WellFormed ==
    [decodable : {TRUE}, keys : {Keys}, operation : {"insert"},
     values : InsertValues, apdb_replica_chunk : Ids]
    \cup
    [decodable : {TRUE}, keys : {Keys}, operation : {"update"},
     values : UpdateValues, apdb_replica_chunk : Ids]

\* the ways a message fails validation
Defects ==
    {"undecodable", "no operation", "empty operation", "unsupported operation",
     "no values", "empty values", "no apdb_replica_chunk"}

Damage(e, d) ==
    CASE d = "undecodable" -> [e EXCEPT !.decodable = FALSE]
      [] d = "no operation" -> [e EXCEPT !.keys = @ \ {"operation"}]
      [] d = "empty operation" -> [e EXCEPT !.operation = ""]
      [] d = "unsupported operation" -> [e EXCEPT !.operation = "delete"]
      [] d = "no values" -> [e EXCEPT !.keys = @ \ {"values"}]
      [] d = "empty values" -> [e EXCEPT !.values = EmptyDict]
      [] d = "no apdb_replica_chunk" -> [e EXCEPT !.keys = @ \ {"apdb_replica_chunk"}]

Malformed == {Damage(e, d) : e \in WellFormed, d \in Defects}

\* the messages on the status topic
Events == WellFormed \cup Malformed


\* track_chunk: validate, dispatch to _update or _insert, log and swallow
\* every exception.  calls counts the statements sent to the registry, raised
\* says whether an exception leaves the handler.
track_chunk(t, event) ==
    IF Validate(event) # "ok"
    THEN [tbl |-> t, outcome |-> "dropped", calls |-> 0, rowcount |-> 0, raised |-> FALSE]
    ELSE LET chunk_id == event.apdb_replica_chunk
             r == IF event.operation = "update"
                  THEN _update(t, chunk_id, event.values)
                  ELSE _insert(t, chunk_id, event.values)
         IN [tbl |-> r.tbl,
             outcome |-> IF r.raised THEN "error"
                         ELSE IF event.operation = "insert" THEN "inserted"
                         ELSE IF r.rowcount = 0 THEN "no_rows" ELSE "updated",
             calls |-> 1,
             rowcount |-> r.rowcount,
             raised |-> FALSE]

\* --------------------------------------------------- ReplicaChunkDatabase
Max(S) == CHOOSE m \in S : \A x \in S : x <= m

\* a set of ids as the ascending list of its members
RECURSIVE Ascending(_)
Ascending(S) ==
    IF S = {} THEN << >>
    ELSE LET m == Max(S) IN Append(Ascending(S \ {m}), m)

Range(seq) == {seq[k] : k \in 1..Len(seq)}

IsPromoted(t, i) == \E k \in 1..Len(t[i]) : t[i][k].status = PROMOTED

IsStaged(t, i) == HasRow(t, i) /\ \A k \in 1..Len(t[i]) : t[i][k].status = STAGED

\* the highest id whose record is PROMOTED; 0 when there is none
HighestPromoted(t) ==
    LET P == {i \in Ids : IsPromoted(t, i)} IN IF P = {} THEN 0 ELSE Max(P)

\* get_promotable_chunks: the ids, ascending, of the records after the highest
\* PROMOTED id that are STAGED with every record between them and that id
\* STAGED as well.  The caller gets NoPromotableChunksError for << >>.
get_promotable_chunks(t) ==
    LET after == {i \in Present(t) : i > HighestPromoted(t)}
    IN Ascending({i \in after : \A j \in after : j <= i => IsStaged(t, j)})

\* mark_chunks_promoted: in one transaction status = PROMOTED and
\* promoted_at = now for exactly the given ids; returns the number of rows
mark_chunks_promoted(t, ids, time) ==
    LET marked == [i \in Ids |->
                     IF i \in Range(ids)
                     THEN [k \in 1..Len(t[i]) |->
                             [t[i][k] EXCEPT !.status = PROMOTED, !.promoted_at = {time}]]
                     ELSE t[i]]
    IN [tbl |-> marked,
        count |-> NumRows([i \in Ids |-> IF i \in Range(ids) THEN t[i] ELSE << >>])]

\* --------------------------------------------------------- promote_chunks
\* promote_chunks marking one chunk fewer than it promoted
promote_chunks_short(t, time, get_ok, promoter_ok, mark_ok) ==
    LET promotable_chunks == get_promotable_chunks(t)
        shorter == SubSeq(promotable_chunks, 1, Len(promotable_chunks) - 1)
        m == mark_chunks_promoted(t, shorter, time)
    IN IF ~get_ok
       THEN [tbl |-> t, promoter_arg |-> << >>, mark_arg |-> << >>,
             code |-> 500, ok |-> FALSE, chunks_promoted |-> 0]
       ELSE IF promotable_chunks = << >>
       THEN [tbl |-> t, promoter_arg |-> << >>, mark_arg |-> << >>,
             code |-> 200, ok |-> TRUE, chunks_promoted |-> 0]
       ELSE IF ~promoter_ok
       THEN [tbl |-> t, promoter_arg |-> promotable_chunks, mark_arg |-> << >>,
             code |-> 500, ok |-> FALSE, chunks_promoted |-> 0]
       ELSE IF ~mark_ok
       THEN [tbl |-> t, promoter_arg |-> promotable_chunks, mark_arg |-> shorter,
             code |-> 500, ok |-> FALSE, chunks_promoted |-> 0]
       ELSE [tbl |-> m.tbl, promoter_arg |-> promotable_chunks, mark_arg |-> shorter,
             code |-> 200, ok |-> TRUE, chunks_promoted |-> m.count]

\* promote_chunks answering 500 when there is nothing to promote
promote_chunks_empty_is_error(t, time, get_ok, promoter_ok, mark_ok) ==
    LET promotable_chunks == get_promotable_chunks(t)
        m == mark_chunks_promoted(t, promotable_chunks, time)
    IN IF ~get_ok
       THEN [tbl |-> t, promoter_arg |-> << >>, mark_arg |-> << >>,
             code |-> 500, ok |-> FALSE, chunks_promoted |-> 0]
       ELSE IF promotable_chunks = << >>
       THEN [tbl |-> t, promoter_arg |-> << >>, mark_arg |-> << >>,
             code |-> 500, ok |-> FALSE, chunks_promoted |-> 0]
       ELSE IF ~promoter_ok
       THEN [tbl |-> t, promoter_arg |-> promotable_chunks, mark_arg |-> << >>,
             code |-> 500, ok |-> FALSE, chunks_promoted |-> 0]
       ELSE IF ~mark_ok
       THEN [tbl |-> t, promoter_arg |-> promotable_chunks, mark_arg |-> promotable_chunks,
             code |-> 500, ok |-> FALSE, chunks_promoted |-> 0]
       ELSE [tbl |-> m.tbl, promoter_arg |-> promotable_chunks, mark_arg |-> promotable_chunks,
             code |-> 200, ok |-> TRUE, chunks_promoted |-> m.count]

\* promote_chunks marking the chunks although the promoter raised
promote_chunks_mark_anyway(t, time, get_ok, promoter_ok, mark_ok) ==
    LET promotable_chunks == get_promotable_chunks(t)
        m == mark_chunks_promoted(t, promotable_chunks, time)
    IN IF ~get_ok
       THEN [tbl |-> t, promoter_arg |-> << >>, mark_arg |-> << >>,
             code |-> 500, ok |-> FALSE, chunks_promoted |-> 0]
       ELSE IF promotable_chunks = << >>
       THEN [tbl |-> t, promoter_arg |-> << >>, mark_arg |-> << >>,
             code |-> 200, ok |-> TRUE, chunks_promoted |-> 0]
       ELSE IF ~promoter_ok
       THEN [tbl |-> m.tbl, promoter_arg |-> promotable_chunks,
             mark_arg |-> promotable_chunks,
             code |-> 500, ok |-> FALSE, chunks_promoted |-> 0]
       ELSE IF ~mark_ok
       THEN [tbl |-> t, promoter_arg |-> promotable_chunks, mark_arg |-> promotable_chunks,
             code |-> 500, ok |-> FALSE, chunks_promoted |-> 0]
       ELSE [tbl |-> m.tbl, promoter_arg |-> promotable_chunks, mark_arg |-> promotable_chunks,
             code |-> 200, ok |-> TRUE, chunks_promoted |-> m.count]

\* promote_chunks answering 200 when mark_chunks_promoted raised
promote_chunks_swallow(t, time, get_ok, promoter_ok, mark_ok) ==
    LET promotable_chunks == get_promotable_chunks(t)
        m == mark_chunks_promoted(t, promotable_chunks, time)
    IN IF ~get_ok
       THEN [tbl |-> t, promoter_arg |-> << >>, mark_arg |-> << >>,
             code |-> 500, ok |-> FALSE, chunks_promoted |-> 0]
       ELSE IF promotable_chunks = << >>
       THEN [tbl |-> t, promoter_arg |-> << >>, mark_arg |-> << >>,
             code |-> 200, ok |-> TRUE, chunks_promoted |-> 0]
       ELSE IF ~promoter_ok
       THEN [tbl |-> t, promoter_arg |-> promotable_chunks, mark_arg |-> << >>,
             code |-> 500, ok |-> FALSE, chunks_promoted |-> 0]
       ELSE IF ~mark_ok
       THEN [tbl |-> t, promoter_arg |-> promotable_chunks, mark_arg |-> promotable_chunks,
             code |-> 200, ok |-> TRUE, chunks_promoted |-> 0]
       ELSE [tbl |-> m.tbl, promoter_arg |-> promotable_chunks, mark_arg |-> promotable_chunks,
             code |-> 200, ok |-> TRUE, chunks_promoted |-> m.count]

\* promote_chunks over a registry that marks id by id: a failure leaves the first id marked
promote_chunks_partial(t, time, get_ok, promoter_ok, mark_ok) ==
    LET promotable_chunks == get_promotable_chunks(t)
        m == mark_chunks_promoted(t, promotable_chunks, time)
    IN IF ~get_ok
       THEN [tbl |-> t, promoter_arg |-> << >>, mark_arg |-> << >>,
             code |-> 500, ok |-> FALSE, chunks_promoted |-> 0]
       ELSE IF promotable_chunks = << >>
       THEN [tbl |-> t, promoter_arg |-> << >>, mark_arg |-> << >>,
             code |-> 200, ok |-> TRUE, chunks_promoted |-> 0]
       ELSE IF ~promoter_ok
       THEN [tbl |-> t, promoter_arg |-> promotable_chunks, mark_arg |-> << >>,
             code |-> 500, ok |-> FALSE, chunks_promoted |-> 0]
       ELSE IF ~mark_ok
       THEN [tbl |-> mark_chunks_promoted(t, SubSeq(promotable_chunks, 1, 1), time).tbl,
             promoter_arg |-> promotable_chunks, mark_arg |-> promotable_chunks,
             code |-> 500, ok |-> FALSE, chunks_promoted |-> 0]
       ELSE [tbl |-> m.tbl, promoter_arg |-> promotable_chunks, mark_arg |-> promotable_chunks,
             code |-> 200, ok |-> TRUE, chunks_promoted |-> m.count]

\* promote_chunks: one pass of the HTTP handler.  get_ok, promoter_ok and
\* mark_ok say whether get_promotable_chunks, ReplicaChunkPromoter.promote_chunks
\* and mark_chunks_promoted return or raise an unexpected exception.
\* promoter_arg and mark_arg are the lists the promoter and
\* mark_chunks_promoted were called with (<< >> when not called).
promote_chunks(t, time, get_ok, promoter_ok, mark_ok) ==
    LET promotable_chunks == get_promotable_chunks(t)
        m == mark_chunks_promoted(t, promotable_chunks, time)
    IN IF ~get_ok
       THEN [tbl |-> t, promoter_arg |-> << >>, mark_arg |-> << >>,
             code |-> 500, ok |-> FALSE, chunks_promoted |-> 0]
       ELSE IF promotable_chunks = << >>
       THEN [tbl |-> t, promoter_arg |-> << >>, mark_arg |-> << >>,
             code |-> 200, ok |-> TRUE, chunks_promoted |-> 0]
       ELSE IF ~promoter_ok
       THEN [tbl |-> t, promoter_arg |-> promotable_chunks, mark_arg |-> << >>,
             code |-> 500, ok |-> FALSE, chunks_promoted |-> 0]
       ELSE IF ~mark_ok
       THEN [tbl |-> t, promoter_arg |-> promotable_chunks, mark_arg |-> promotable_chunks,
             code |-> 500, ok |-> FALSE, chunks_promoted |-> 0]
       ELSE [tbl |-> m.tbl, promoter_arg |-> promotable_chunks, mark_arg |-> promotable_chunks,
             code |-> 200, ok |-> TRUE, chunks_promoted |-> m.count]

\* ---------------------------------------------------- trigger_stage_chunk
\* the ways a new-chunk notification is unusable: the payload does not decode,
\* is not JSON, or lacks one of bucket, name, dataset
NotificationDefects == {"undecodable", "not json", "missing key"}

\* a new-chunk notification: the chunk named by the object path, and its defect
Notifications == [chunk : Ids, defect : {"none"} \cup NotificationDefects]

\* what request.execute() of the flexTemplates launch does: it returns a
\* response with or without the 'job' field, or raises HttpError with a status,
\* GoogleAPICallError with a code, or another exception (a transport failure
\* such as a timeout, or anything else)
LaunchOutcomes ==
    [kind : {"job", "no job"}, status : {200}]
    \cup [kind : {"HttpError", "GoogleAPICallError"}, status : {400, 404, 429, 500, 503}]
    \cup [kind : {"transport error", "other error"}, status : {0}]

\* job_name: stage-chunk-<chunk id>-<timestamp to the second>
JobName(chunk_id, timestamp) == <<"stage-chunk", chunk_id, timestamp>>

\* trigger_stage_chunk: decode the notification, build the job name and the
\* launch body, submit it and classify the outcome.  raised says whether the
\* exception leaves the handler (the notification is then redelivered).
trigger_stage_chunk(notification, time, outcome) ==
    IF notification.defect # "none"
    THEN [submitted |-> FALSE, job_name |-> << >>, raised |-> FALSE, result |-> "dropped"]
    ELSE LET job_name == JobName(notification.chunk, time)
         IN IF outcome.kind = "job"
            THEN [submitted |-> TRUE, job_name |-> job_name, raised |-> FALSE,
                  result |-> "launched"]
            ELSE IF outcome.kind = "no job"
            THEN [submitted |-> TRUE, job_name |-> job_name, raised |-> FALSE,
                  result |-> "no job id"]
            ELSE IF outcome.kind = "HttpError"
            THEN IF outcome.status \in {429, 500, 503}
                 THEN [submitted |-> TRUE, job_name |-> job_name, raised |-> TRUE,
                       result |-> "retry"]
                 ELSE [submitted |-> TRUE, job_name |-> job_name, raised |-> FALSE,
                       result |-> "acknowledged"]
            ELSE IF outcome.kind = "GoogleAPICallError"
            THEN [submitted |-> TRUE, job_name |-> job_name, raised |-> TRUE,
                  result |-> "retry"]
            ELSE [submitted |-> TRUE, job_name |-> job_name, raised |-> FALSE,
                  result |-> "acknowledged"]

NoTrigger ==
    [chunk |-> 0, defect |-> "none", kind |-> "none", status |-> 0,
     submitted |-> FALSE, raised |-> FALSE, result |-> "none"]

\* ------------------------------------------------------------ Staging Job
\* the tables a manifest names
Tables == {"DiaObject", "DiaSource"}

\* the row counts of a manifest entry: an empty table and a table with rows
RowCounts == {0, 2}

\* a manifest without the table_data section (or with an empty one)
NoTableData == << >>

\* manifest["table_data"]: table name -> row_count
ManifestContents == {NoTableData} \cup [Tables -> RowCounts]

\* the tables of a manifest in the order of the loop
TableOrder == <<"DiaObject", "DiaSource">>

\* the message update_chunk_status publishes
StagedEvent(chunk_id) ==
    [decodable |-> TRUE, keys |-> Keys, operation |-> "update",
     values |-> [status |-> STAGED], apdb_replica_chunk |-> chunk_id]

\* the loop of run() without the skip: every table of the manifest is loaded
TablesToLoad_all(manifest) == Tables

\* the tables the loop of run() builds a read and a staging write for
TablesToLoad(manifest) == {table \in Tables : manifest[table] # 0}

\* the staging write with WRITE_TRUNCATE: the load replaces what the table held
write_to_bigquery_truncate(copies) == 1

\* write_to_bigquery: WriteToBigQuery with CREATE_NEVER and WRITE_APPEND; the
\* chunk's rows are added to whatever the staging table holds.  copies is the
\* number of copies of the chunk's rows in the table.
write_to_bigquery(copies) == copies + 1

\* what the environment does to one run: whether temp_location is set, whether
\* the manifest can be read, which of the loads are written before the pipeline
\* ends (all of them when it succeeds), and whether the publish returns
\* ("published"), raises without sending ("failed") or raises after the
\* message went out ("timeout")
RunOutcomes ==
    {env \in [temp_location : BOOLEAN, manifest_read : BOOLEAN, written : SUBSET Tables,
              publish : {"published", "failed", "timeout"}] :
        \* a step that is never reached has no outcome of its own
        (~env.temp_location \/ ~env.manifest_read)
            => /\ env.temp_location \/ env.manifest_read
               /\ env.written = Tables
               /\ env.publish = "published"}

\* the calls of a run in order
LoadLog(tables) ==
    LET RECURSIVE Log(_)
        Log(k) == IF k = 0 THEN << >>
                  ELSE IF TableOrder[k] \in tables
                       THEN Append(Log(k - 1), <<"load", TableOrder[k]>>)
                       ELSE Log(k - 1)
    IN Log(Len(TableOrder))

\* run() publishing the staged event whether or not the pipeline succeeded
run_publish_always(chunk_id, manifest, env) ==
    LET failed == [attempted |-> {}, written |-> {}, log |-> << >>,
                   published |-> << >>, raised |-> TRUE, result |-> "failed before loads"]
    IN IF ~env.temp_location \/ ~env.manifest_read \/ manifest = NoTableData
       THEN failed
       ELSE LET attempted == TablesToLoad(manifest)
                written == env.written \cap attempted
            IN [attempted |-> attempted, written |-> written,
                log |-> Append(LoadLog(attempted), <<"publish", chunk_id>>),
                published |-> IF env.publish = "failed" THEN << >>
                              ELSE <<StagedEvent(chunk_id)>>,
                raised |-> written # attempted \/ env.publish # "published",
                result |-> IF written # attempted THEN "failed during loads"
                           ELSE IF env.publish = "published" THEN "staged"
                           ELSE "publish failed"]

\* run(): read the manifest, build a load for every table that is not empty,
\* run the pipeline (at the end of the with block), then publish the staged
\* event.  attempted: the loads built; written: the loads whose append
\* happened; log: the calls in order; raised: the run ends with an exception.
run(chunk_id, manifest, env) ==
    LET failed == [attempted |-> {}, written |-> {}, log |-> << >>,
                   published |-> << >>, raised |-> TRUE, result |-> "failed before loads"]
    IN IF ~env.temp_location \/ ~env.manifest_read \/ manifest = NoTableData
       THEN failed
       ELSE LET attempted == TablesToLoad(manifest)
                written == env.written \cap attempted
            IN IF written # attempted
               THEN [attempted |-> attempted, written |-> written,
                     log |-> LoadLog(attempted), published |-> << >>,
                     raised |-> TRUE, result |-> "failed during loads"]
               ELSE [attempted |-> attempted, written |-> written,
                     log |-> Append(LoadLog(attempted), <<"publish", chunk_id>>),
                     published |-> IF env.publish = "failed" THEN << >>
                                   ELSE <<StagedEvent(chunk_id)>>,
                     raised |-> env.publish # "published",
                     result |-> IF env.publish = "published" THEN "staged"
                                ELSE "publish failed"]

NoRun ==
    [n |-> 0, chunk |-> 0, attempted |-> {}, written |-> {}, log |-> << >>,
     published |-> << >>, raised |-> FALSE, result |-> "none"]

\* ------------------------------------------------- concurrent invocations
Invocations == 1..MaxInvocations

\* an invocation of track_chunk that has not received its message
NoInsert ==
    [pc |-> "idle", chunk |-> 0, values |-> EmptyDict, overlapped |-> FALSE,
     outcome |-> "none"]

\* an invocation of promote_chunks that has not received its request
NoPass ==
    [pc |-> "idle", list |-> << >>, promoted |-> FALSE, code |-> 0, ok |-> FALSE,
     chunks_promoted |-> 0]

\* ---------------------------------------------------------------- actions
NoCall ==
    [fn |-> "none", outcome |-> "none", operation |-> "", chunk |-> 0, status |-> "",
     repeat |-> FALSE, lost |-> FALSE, calls |-> 0, rowcount |-> 0, raised |-> FALSE,
     promoter_arg |-> << >>, mark_arg |-> << >>, code |-> 0, ok |-> FALSE,
     chunks_promoted |-> 0]

Init ==
    /\ tbl = [i \in Ids |-> << >>]
    /\ now = 1
    /\ last = NoCall
    /\ jobs = << >>
    /\ trig = NoTrigger
    /\ manifests = [i \in Ids |-> NoTableData]
    /\ staging = [table \in Tables |-> [i \in Ids |-> 0]]
    /\ topic = << >>
    /\ job = NoRun
    /\ ins = [p \in Invocations |-> NoInsert]
    /\ passes = [p \in Invocations |-> NoPass]

\* the tracker handles one message of the status topic
HandleStatusEvent ==
    \E event \in Events :
        LET r == track_chunk(tbl, event)
            seen == IF event \in WellFormed
                    THEN [operation |-> event.operation,
                          chunk |-> event.apdb_replica_chunk,
                          status |-> event.values.status]
                    ELSE [operation |-> "", chunk |-> 0, status |-> ""]
        IN /\ tbl' = r.tbl
           /\ last' = [NoCall EXCEPT !.fn = "track_chunk",
                                     !.outcome = r.outcome,
                                     !.operation = seen.operation,
                                     !.chunk = seen.chunk,
                                     !.status = seen.status,
                                     !.repeat = /\ event \in WellFormed
                                                /\ last.fn = "track_chunk"
                                                /\ last.operation = seen.operation
                                                /\ last.chunk = seen.chunk
                                                /\ last.status = seen.status,
                                     !.lost = /\ event \in WellFormed
                                              /\ last.fn = "track_chunk"
                                              /\ last.operation = "update"
                                              /\ last.outcome = "no_rows"
                                              /\ last.chunk = seen.chunk,
                                     !.calls = r.calls,
                                     !.rowcount = r.rowcount,
                                     !.raised = r.raised]
           /\ UNCHANGED <<now, triggerVars, stageVars, concurrentVars>>

\* the promotion endpoint is called
HandlePromoteRequest ==
    \E get_ok \in BOOLEAN, promoter_ok \in BOOLEAN, mark_ok \in BOOLEAN :
        LET r == promote_chunks(tbl, now, get_ok, promoter_ok, mark_ok)
        IN /\ tbl' = r.tbl
           /\ last' = [NoCall EXCEPT !.fn = "promote_chunks",
                                     !.outcome = IF r.ok THEN "ok" ELSE "error",
                                     !.promoter_arg = r.promoter_arg,
                                     !.mark_arg = r.mark_arg,
                                     !.code = r.code,
                                     !.ok = r.ok,
                                     !.chunks_promoted = r.chunks_promoted]
           /\ UNCHANGED <<now, triggerVars, stageVars, concurrentVars>>

\* time passes
Tick ==
    /\ now < MaxTime
    /\ now' = now + 1
    /\ UNCHANGED <<registryVars, triggerVars, stageVars, concurrentVars>>

Next == HandleStatusEvent \/ HandlePromoteRequest \/ Tick

Spec == Init /\ [][Next]_vars

\* the Staging Trigger handles one new-chunk notification
HandleNotification ==
    \E notification \in Notifications, outcome \in LaunchOutcomes :
        LET r == trigger_stage_chunk(notification, now, outcome)
        IN /\ r.submitted => Len(jobs) < MaxJobs
           /\ jobs' = IF r.submitted THEN Append(jobs, r.job_name) ELSE jobs
           /\ trig' = [chunk |-> notification.chunk,
                       defect |-> notification.defect,
                       kind |-> IF r.submitted THEN outcome.kind ELSE "none",
                       status |-> IF r.submitted THEN outcome.status ELSE 0,
                       submitted |-> r.submitted,
                       raised |-> r.raised,
                       result |-> r.result]
           /\ UNCHANGED <<now, registryVars, stageVars, concurrentVars>>

TriggerNext == HandleNotification \/ Tick

\* the Staging Trigger on its own
TriggerSpec == Init /\ [][TriggerNext]_vars

\* one run of the Staging Job for a chunk
RunStagingJob ==
    \E chunk_id \in Ids, env \in RunOutcomes :
        LET r == run(chunk_id, manifests[chunk_id], env)
        IN /\ job.n < MaxRuns
           /\ staging' = [table \in Tables |->
                            IF table \in r.written
                            THEN [staging[table] EXCEPT ![chunk_id] = write_to_bigquery(@)]
                            ELSE staging[table]]
           /\ topic' = topic \o r.published
           /\ job' = [n |-> job.n + 1, chunk |-> chunk_id, attempted |-> r.attempted,
                      written |-> r.written, log |-> r.log,
                      published |-> r.published, raised |-> r.raised,
                      result |-> r.result]
           /\ UNCHANGED <<now, registryVars, triggerVars, manifests, concurrentVars>>

StageInit ==
    /\ tbl = [i \in Ids |-> << >>]
    /\ now = 1
    /\ last = NoCall
    /\ jobs = << >>
    /\ trig = NoTrigger
    /\ manifests \in [Ids -> ManifestContents]
    /\ staging = [table \in Tables |-> [i \in Ids |-> 0]]
    /\ topic = << >>
    /\ job = NoRun
    /\ ins = [p \in Invocations |-> NoInsert]
    /\ passes = [p \in Invocations |-> NoPass]

StageNext == RunStagingJob

\* the Staging Job on its own, for every content of the manifests
StageSpec == StageInit /\ [][StageNext]_vars

\* ------------------------------------------------------------ properties
Row(t, i) == t[i][1]

Rank(status) == CASE status = PENDING -> 1 [] status = STAGED -> 2 [] status = PROMOTED -> 3

\* C1: a chunk record is PROMOTED only if every chunk record with a smaller
\* id is PROMOTED too (no gaps), in every reachable state.
NoGapInvariant ==
    \A i \in Ids, j \in Ids :
        (i < j /\ HasRow(tbl, i) /\ HasRow(tbl, j) /\ Row(tbl, j).status = PROMOTED)
            => Row(tbl, i).status = PROMOTED

\* C2: no step handled by track_chunk or promote_chunks moves a chunk's status
\* backwards in the order PENDING < STAGED < PROMOTED.
ForwardOnlyStatus ==
    [][\A i \in Ids :
          (HasRow(tbl, i) /\ HasRow(tbl', i))
              => Rank(Row(tbl', i).status) >= Rank(Row(tbl, i).status)]_vars

AllStatus(t, S, status) == \A i \in S : HasRow(t, i) /\ Row(t, i).status = status

\* C3: when the inserted chunks are 1..n, chunks 1..k are STAGED and chunk
\* k+1 is not staged, get_promotable_chunks() returns exactly <<1, ..., k>>.
PromotablePrefix ==
    \A n \in Ids, k \in Ids :
        (/\ Present(tbl) = 1..n
         /\ k <= n
         /\ AllStatus(tbl, 1..k, STAGED)
         /\ (k + 1 <= n => Row(tbl, k + 1).status # STAGED))
            => get_promotable_chunks(tbl) = Ascending(1..k)

\* C4 as stated: after a pass promoted and marked <<1..k>> the highest promoted
\* id is k, and with chunks k+1 and k+2 both staged after it
\* get_promotable_chunks() returns nothing.
NoGapPromotionAsStated ==
    \A k \in Ids :
        /\ (last.fn = "promote_chunks" /\ last.ok /\ last.promoter_arg = Ascending(1..k))
               => HighestPromoted(tbl) = k
        /\ (/\ k + 2 \in Ids
            /\ AllStatus(tbl, 1..k, PROMOTED)
            /\ HighestPromoted(tbl) = k
            /\ AllStatus(tbl, {k + 1, k + 2}, STAGED))
               => get_promotable_chunks(tbl) = << >>

\* C4 amended: after a pass promoted and marked <<1..k>> the highest promoted
\* id is k; with chunk k+1 recorded but not staged, a staged chunk k+2 is not
\* promotable (nothing is); with k+1 and k+2 both staged the promotable list
\* starts <<k+1, k+2>>.
NoGapPromotion ==
    \A k \in Ids :
        /\ (last.fn = "promote_chunks" /\ last.ok /\ last.promoter_arg = Ascending(1..k))
               => HighestPromoted(tbl) = k
        /\ (/\ k + 2 \in Ids
            /\ AllStatus(tbl, 1..k, PROMOTED)
            /\ HighestPromoted(tbl) = k
            /\ AllStatus(tbl, {k + 1}, PENDING)
            /\ AllStatus(tbl, {k + 2}, STAGED))
               => get_promotable_chunks(tbl) = << >>
        /\ (/\ k + 2 \in Ids
            /\ AllStatus(tbl, 1..k, PROMOTED)
            /\ HighestPromoted(tbl) = k
            /\ AllStatus(tbl, {k + 1, k + 2}, STAGED))
               => SubSeq(get_promotable_chunks(tbl), 1, 2) = <<k + 1, k + 2>>

\* a pass has just promoted <<1..k>> while k+1 is still pending and k+2 staged
NoGapPromotionWitness ==
    \E k \in Ids :
        /\ k + 2 \in Ids
        /\ last.fn = "promote_chunks" /\ last.ok /\ last.promoter_arg = Ascending(1..k)
        /\ AllStatus(tbl, 1..k, PROMOTED)
        /\ AllStatus(tbl, {k + 1}, PENDING)
        /\ AllStatus(tbl, {k + 2}, STAGED)

NotPromoted(t) == {i \in Present(t) : Row(t, i).status # PROMOTED}

\* C5: once the chunks inserted PENDING have been marked STAGED, in whatever
\* order, get_promotable_chunks() returns all of them, ascending, from the
\* lowest id not yet promoted; a pass that succeeds leaves every chunk it
\* promoted PROMOTED; and a chunk inserted as STAGED after all the others were
\* promoted is promotable on its own.
OutOfOrderStaging ==
    /\ (/\ last.fn = "track_chunk" /\ last.operation = "update" /\ last.outcome = "updated"
        /\ NotPromoted(tbl) # {}
        /\ AllStatus(tbl, NotPromoted(tbl), STAGED))
           => get_promotable_chunks(tbl) = Ascending(NotPromoted(tbl))
    /\ (last.fn = "promote_chunks" /\ last.ok)
           => AllStatus(tbl, Range(last.promoter_arg), PROMOTED)
    /\ (/\ last.fn = "track_chunk" /\ last.operation = "insert" /\ last.outcome = "inserted"
        /\ last.status = STAGED
        /\ last.chunk = Max(Present(tbl) \cup {0})
        /\ NotPromoted(tbl) = {last.chunk})
           => get_promotable_chunks(tbl) = <<last.chunk>>

InsertEvents == {e \in WellFormed : e.operation = "insert"}

UpdateEvents == {e \in WellFormed : e.operation = "update"}

\* C6: an insert event for an id that has a record is answered with an error
\* and changes nothing, whatever values it carries; an insert for an id without
\* a record creates the one record with the event's values, and no id ever has
\* two records.
DuplicateInsertRejected ==
    /\ \A i \in Ids : Len(tbl[i]) <= 1
    /\ \A e \in InsertEvents :
          LET r == track_chunk(tbl, e)
              i == e.apdb_replica_chunk
          IN IF HasRow(tbl, i)
             THEN r.outcome = "error" /\ r.tbl = tbl
             ELSE /\ r.outcome = "inserted"
                  /\ r.tbl = [tbl EXCEPT ![i] = <<NewRow(e.values)>>]
                  /\ \A e2 \in InsertEvents :
                        e2.apdb_replica_chunk = i
                            => /\ track_chunk(r.tbl, e2).outcome = "error"
                               /\ track_chunk(r.tbl, e2).tbl = r.tbl
    /\ (last.fn = "track_chunk" /\ last.operation = "insert" /\ last.outcome = "error")
           => Len(tbl[last.chunk]) = 1

\* a second insert with other values was rejected and the record kept its own
DuplicateInsertWitness ==
    /\ last.fn = "track_chunk" /\ last.operation = "insert" /\ last.outcome = "error"
    /\ Len(tbl[last.chunk]) = 1
    /\ Row(tbl, last.chunk).status = PENDING
    /\ last.status = STAGED

\* C7: an update event for an id without a record affects 0 rows, creates no
\* record, leaves every record as it was and does not raise.
UpdateBeforeInsertTolerated ==
    /\ \A e \in UpdateEvents :
          ~HasRow(tbl, e.apdb_replica_chunk)
              => LET r == track_chunk(tbl, e)
                 IN r.rowcount = 0 /\ r.outcome = "no_rows" /\ r.tbl = tbl /\ ~r.raised
    /\ (last.fn = "track_chunk" /\ last.outcome = "no_rows")
           => last.rowcount = 0 /\ ~last.raised /\ ~HasRow(tbl, last.chunk)

\* an update for an unknown id was handled while other records exist
UpdateBeforeInsertWitness ==
    /\ last.fn = "track_chunk" /\ last.operation = "update" /\ last.outcome = "no_rows"
    /\ ~HasRow(tbl, last.chunk)
    /\ Present(tbl) # {}

\* C8: a status event that fails validation (payload undecodable, operation
\* missing, empty or unsupported, values missing or empty, apdb_replica_chunk
\* missing) makes track_chunk send nothing to the registry, leaves the table
\* unchanged and raises nothing to the caller.
MalformedEventDropped ==
    /\ \A e \in Malformed :
          LET r == track_chunk(tbl, e)
          IN r.outcome = "dropped" /\ r.calls = 0 /\ r.tbl = tbl /\ ~r.raised
    /\ (last.fn = "track_chunk" /\ last.outcome = "dropped")
           => last.calls = 0 /\ ~last.raised

\* a malformed event was dropped while the registry holds records
MalformedEventWitness ==
    /\ last.fn = "track_chunk" /\ last.outcome = "dropped" /\ last.calls = 0
    /\ Present(tbl) # {}

\* C9: handling a well-formed status event a second time, right after the
\* first, leaves the table as the first handling left it.
IdempotentTracking ==
    [][(last'.fn = "track_chunk" /\ last'.repeat) => tbl' = tbl]_vars

\* the same staged update was handled twice in a row on an existing record
IdempotentTrackingWitness ==
    /\ last.fn = "track_chunk" /\ last.repeat
    /\ last.operation = "update" /\ last.outcome = "updated"
    /\ Row(tbl, last.chunk).status = STAGED

\* C10: staged_at is set when a chunk becomes STAGED and promoted_at when it
\* becomes PROMOTED, and no step changes a timestamp that is set.
TimestampsWrittenOnce ==
    [][\A i \in Ids :
          (HasRow(tbl, i) /\ HasRow(tbl', i))
              => /\ Row(tbl, i).staged_at # NULL
                       => Row(tbl', i).staged_at = Row(tbl, i).staged_at
                 /\ Row(tbl, i).promoted_at # NULL
                       => Row(tbl', i).promoted_at = Row(tbl, i).promoted_at
                 /\ (Row(tbl, i).status # STAGED /\ Row(tbl', i).status = STAGED)
                       => Row(tbl', i).staged_at # NULL
                 /\ (Row(tbl, i).status # PROMOTED /\ Row(tbl', i).status = PROMOTED)
                       => Row(tbl', i).promoted_at # NULL]_vars

\* a failure of the launch that a later attempt can overcome: rate limiting
\* (429), server-side unavailability (500, 503) and transport failures
Transient(kind, status) ==
    \/ kind \in {"HttpError", "GoogleAPICallError"} /\ status \in {429, 500, 503}
    \/ kind = "transport error"

\* C11: trigger_stage_chunk re-raises exactly when the submission failed with
\* a transient failure; a permanent failure and a response without a job
\* identifier are logged and acknowledged.
RetryClassification ==
    trig.submitted => (trig.raised <=> Transient(trig.kind, trig.status))

\* C20: any two launch requests submitted by trigger_stage_chunk, those of a
\* redelivered notification included, carry distinct job names.
JobNamesDistinct ==
    \A i \in 1..Len(jobs), j \in 1..Len(jobs) : i # j => jobs[i] # jobs[j]

Publishes(log) == {k \in 1..Len(log) : log[k][1] = "publish"}

Loads(log) == {log[k][2] : k \in {j \in 1..Len(log) : log[j][1] = "load"}}

\* C12: a run publishes at most one staged event, for its own chunk, and only
\* as its last call after every load it built was written; a run that ends
\* without an exception has published exactly one; a run that fails before or
\* during the loads publishes none; a run whose publish fails ends with an
\* exception.
StagedEventOrdering ==
    job.n > 0 =>
        /\ Cardinality(Publishes(job.log)) <= 1
        /\ Len(job.published) <= 1
        /\ \A k \in 1..Len(job.published) : job.published[k] = StagedEvent(job.chunk)
        /\ \A k \in Publishes(job.log) :
              /\ k = Len(job.log)
              /\ job.log[k] = <<"publish", job.chunk>>
              /\ Loads(job.log) = job.attempted
              /\ job.written = job.attempted
        /\ job.published # << >> => Publishes(job.log) # {}
        /\ ~job.raised => (job.published = <<StagedEvent(job.chunk)>> /\ job.result = "staged")
        /\ job.result \in {"failed before loads", "failed during loads"}
              => (job.published = << >> /\ Publishes(job.log) = {} /\ job.raised)
        /\ job.result = "publish failed" => job.raised
        /\ Len(topic) <= job.n

\* a run wrote two tables and then published its staged event
StagedEventWitness ==
    /\ job.n > 0 /\ job.result = "staged" /\ ~job.raised
    /\ job.attempted = Tables /\ job.written = Tables
    /\ topic # << >> /\ topic[Len(topic)] = StagedEvent(job.chunk)

\* C13: a run that gets to the loads builds a load for a manifest entry
\* exactly when the entry's row_count is positive; an entry with row_count 0
\* never gets a load.
SkipIfEmpty ==
    job.n > 0 =>
        /\ \A table \in job.attempted :
              manifests[job.chunk] # NoTableData /\ manifests[job.chunk][table] > 0
        /\ Loads(job.log) \subseteq job.attempted
        /\ job.result # "failed before loads"
              => /\ job.attempted = {table \in Tables : manifests[job.chunk][table] > 0}
                 /\ Loads(job.log) = job.attempted

\* a run loaded one table and skipped the other, which has row_count 0
SkipIfEmptyWitness ==
    /\ job.n > 0 /\ job.result # "failed before loads"
    /\ \E loaded \in Tables, skipped \in Tables :
          /\ manifests[job.chunk][skipped] = 0
          /\ manifests[job.chunk][loaded] > 0
          /\ job.attempted = {loaded}

IsAscending(seq) == \A i \in 1..Len(seq), j \in 1..Len(seq) : i < j => seq[i] < seq[j]

\* C14: when get_promotable_chunks() reports nothing, promote_chunks answers
\* 200 with ok = true and chunks_promoted = 0, calls neither the promoter nor
\* mark_chunks_promoted, and leaves the registry unchanged.
NothingToPromoteIsSuccess ==
    /\ get_promotable_chunks(tbl) = << >>
          => \A promoter_ok \in BOOLEAN, mark_ok \in BOOLEAN :
                LET r == promote_chunks(tbl, now, TRUE, promoter_ok, mark_ok)
                IN /\ r.code = 200 /\ r.ok /\ r.chunks_promoted = 0
                   /\ r.promoter_arg = << >> /\ r.mark_arg = << >>
                   /\ r.tbl = tbl
    /\ (last.fn = "promote_chunks" /\ last.code = 200 /\ last.promoter_arg = << >>)
          => (last.ok /\ last.chunks_promoted = 0 /\ last.mark_arg = << >>)

\* a pass found nothing to promote in a registry that holds records
NothingToPromoteWitness ==
    /\ last.fn = "promote_chunks" /\ last.code = 200 /\ last.ok
    /\ last.promoter_arg = << >> /\ last.chunks_promoted = 0
    /\ Present(tbl) # {}
    /\ get_promotable_chunks(tbl) = << >>

\* C15: in one pass the promoter gets exactly the list of
\* get_promotable_chunks(), ascending; mark_chunks_promoted is called with the
\* same list when the promoter returned, and not at all when it raised.
PromotionPassOrdering ==
    /\ \A promoter_ok \in BOOLEAN, mark_ok \in BOOLEAN :
          LET r == promote_chunks(tbl, now, TRUE, promoter_ok, mark_ok)
              promotable == get_promotable_chunks(tbl)
          IN /\ r.promoter_arg = promotable
             /\ IsAscending(r.promoter_arg)
             /\ (promoter_ok => r.mark_arg = promotable)
             /\ (~promoter_ok => (r.mark_arg = << >> /\ r.tbl = tbl))
    /\ last.fn = "promote_chunks"
          => /\ IsAscending(last.promoter_arg)
             /\ last.mark_arg \in {<< >>, last.promoter_arg}
             /\ last.ok => last.mark_arg = last.promoter_arg

\* a pass promoted and then marked a list of two or more chunks
PromotionPassWitness ==
    /\ last.fn = "promote_chunks" /\ last.ok
    /\ Len(last.promoter_arg) >= 2
    /\ last.mark_arg = last.promoter_arg
    /\ AllStatus(tbl, Range(last.mark_arg), PROMOTED)

\* C16: when get_promotable_chunks, the promoter or mark_chunks_promoted
\* raises, the answer is 500 with ok = false and chunks_promoted = 0, no
\* record has changed and the promotable list is the same as before the pass.
PromotionFailureReported ==
    /\ \A get_ok \in BOOLEAN, promoter_ok \in BOOLEAN, mark_ok \in BOOLEAN :
          LET r == promote_chunks(tbl, now, get_ok, promoter_ok, mark_ok)
              promotable == get_promotable_chunks(tbl)
          IN (~get_ok \/ (promotable # << >> /\ (~promoter_ok \/ ~mark_ok)))
                => /\ r.code = 500 /\ ~r.ok /\ r.chunks_promoted = 0
                   /\ r.tbl = tbl
                   /\ get_promotable_chunks(r.tbl) = promotable
    /\ (last.fn = "promote_chunks" /\ ~last.ok)
          => (last.code = 500 /\ last.chunks_promoted = 0)
    /\ (last.fn = "promote_chunks" /\ ~last.ok /\ last.mark_arg # << >>)
          => get_promotable_chunks(tbl) = last.promoter_arg

\* the promoter succeeded, marking failed, and the same list is promotable again
PromotionFailureWitness ==
    /\ last.fn = "promote_chunks" /\ ~last.ok /\ last.code = 500
    /\ last.mark_arg # << >>
    /\ get_promotable_chunks(tbl) = last.promoter_arg

\* C17: a pass that calls mark_chunks_promoted(ids) either leaves exactly the
\* given ids PROMOTED and every other record as it was, or, when the call
\* fails, leaves the whole table as it was.
AtomicMarking ==
    [][(last'.fn = "promote_chunks" /\ last'.mark_arg # << >>)
          => IF last'.ok
             THEN /\ AllStatus(tbl', Range(last'.mark_arg), PROMOTED)
                  /\ \A i \in Ids \ Range(last'.mark_arg) : tbl'[i] = tbl[i]
             ELSE tbl' = tbl]_vars

\* marking a list of two chunks failed and both are still STAGED
AtomicMarkingWitness ==
    /\ last.fn = "promote_chunks" /\ ~last.ok
    /\ Len(last.mark_arg) >= 2
    /\ AllStatus(tbl, Range(last.mark_arg), STAGED)

\* ------------------------------------------- concurrent track_chunk inserts
\* the INSERT statement sent to a table without the key: it never waits and
\* never fails
execute_insert_unkeyed(t, uncommitted, chunk_id) == "inserted"

\* conn.execute(insert) inside a transaction of the tracking store: the
\* statement waits while another transaction holds an uncommitted row with the
\* same key, raises when a committed row has the key, and otherwise adds the
\* row to the transaction
execute_insert(t, uncommitted, chunk_id) ==
    IF chunk_id \in uncommitted THEN "wait"
    ELSE IF HasRow(t, chunk_id) THEN "duplicate"
    ELSE "inserted"

\* leaving `with engine.begin()`: the transaction's row becomes visible
commit_insert(t, chunk_id, values) ==
    [t EXCEPT ![chunk_id] = Append(@, NewRow(values))]

\* the chunk ids of the rows other transactions have inserted and not committed
Uncommitted(p) == {ins[q].chunk : q \in {x \in Invocations \ {p} : ins[x].pc = "executed"}}

\* an invocation receives an insert event, validates it and opens its transaction
ReceiveInsert ==
    \E p \in Invocations, event \in InsertEvents :
        /\ ins[p].pc = "idle"
        /\ Validate(event) = "ok"
        /\ ins' = [ins EXCEPT ![p] = [NoInsert EXCEPT !.pc = "begun",
                                                      !.chunk = event.apdb_replica_chunk,
                                                      !.values = event.values]]
        /\ UNCHANGED <<tbl, now, last, triggerVars, stageVars, passes>>

\* the invocation's INSERT statement is executed; a duplicate error leaves
\* _insert, is logged by track_chunk and ends the invocation
ExecuteInsert ==
    \E p \in Invocations :
        LET r == execute_insert(tbl, Uncommitted(p), ins[p].chunk)
            others == {q \in Invocations \ {p} :
                          /\ ins[q].pc \in {"begun", "executed"}
                          /\ ins[q].chunk = ins[p].chunk}
        IN /\ ins[p].pc = "begun"
           /\ r # "wait"
           /\ ins' = [ins EXCEPT ![p] =
                         IF r = "duplicate"
                         THEN [@ EXCEPT !.pc = "done", !.outcome = "error",
                                        !.overlapped = others # {}]
                         ELSE [@ EXCEPT !.pc = "executed", !.overlapped = others # {}]]
           /\ UNCHANGED <<tbl, now, last, triggerVars, stageVars, passes>>

\* the invocation's transaction commits and _insert returns
CommitInsert ==
    \E p \in Invocations :
        /\ ins[p].pc = "executed"
        /\ tbl' = commit_insert(tbl, ins[p].chunk, ins[p].values)
        /\ ins' = [ins EXCEPT ![p] = [@ EXCEPT !.pc = "done", !.outcome = "inserted"]]
        /\ UNCHANGED <<now, last, triggerVars, stageVars, passes>>

InsertRaceNext == ReceiveInsert \/ ExecuteInsert \/ CommitInsert

\* track_chunk invocations handling insert events side by side
InsertRaceSpec == Init /\ [][InsertRaceNext]_vars

\* the invocations that have received an insert event for chunk c
InsertersOf(c) == {p \in Invocations : ins[p].pc # "idle" /\ ins[p].chunk = c}

\* C18: when the track_chunk invocations that handle insert events for one
\* chunk id have all finished, whatever the interleaving, exactly one of them
\* has inserted, every other has failed with the duplicate error, and the
\* table holds exactly one record with that id; at no time does it hold two.
ConcurrentInsertsOneWinner ==
    \A c \in Ids :
        /\ Len(tbl[c]) <= 1
        /\ (InsertersOf(c) # {} /\ \A p \in InsertersOf(c) : ins[p].pc = "done")
              => /\ Cardinality({p \in InsertersOf(c) : ins[p].outcome = "inserted"}) = 1
                 /\ \A p \in InsertersOf(c) : ins[p].outcome \in {"inserted", "error"}
                 /\ Len(tbl[c]) = 1

\* two invocations for the same id overlapped: one inserted while the other
\* had its transaction open, and the other then failed with the duplicate error
ConcurrentInsertsWitness ==
    \E p \in Invocations, q \in Invocations :
        /\ p # q
        /\ ins[p].chunk = ins[q].chunk
        /\ ins[p].pc = "done" /\ ins[p].outcome = "inserted" /\ ins[p].overlapped
        /\ ins[q].pc = "done" /\ ins[q].outcome = "error"
        /\ Len(tbl[ins[p].chunk]) = 1

\* ------------------------------------------ concurrent promote_chunks passes
\* the registries in which chunks have been inserted and none promoted yet
InsertedTables ==
    {[i \in Ids |-> IF f[i] = "absent" THEN << >>
                    ELSE _insert([j \in Ids |-> << >>], i, [status |-> f[i]]).tbl[i]] :
        f \in [Ids -> {"absent", PENDING, STAGED}]}

PromoteRaceInit ==
    /\ tbl \in InsertedTables
    /\ now = 1
    /\ last = NoCall
    /\ jobs = << >>
    /\ trig = NoTrigger
    /\ manifests = [i \in Ids |-> NoTableData]
    /\ staging = [table \in Tables |-> [i \in Ids |-> 0]]
    /\ topic = << >>
    /\ job = NoRun
    /\ ins = [p \in Invocations |-> NoInsert]
    /\ passes = [p \in Invocations |-> NoPass]

\* a scheduler that starts a pass only when no other pass is in flight
MayStartPass_serialized(ps, p) ==
    /\ ps[p].pc = "idle"
    /\ \A q \in Invocations \ {p} : ps[q].pc \in {"idle", "done"}

\* promote_chunks starts on every request: the handler takes no lock and
\* looks at no other invocation
MayStartPass(ps, p) == ps[p].pc = "idle"

\* invocation p reads the promotable list; an empty list or a failed read
\* ends its pass
PassGetOf(p) ==
    \E get_ok \in BOOLEAN :
        LET promotable_chunks == get_promotable_chunks(tbl)
        IN /\ MayStartPass(passes, p)
           /\ passes' = [passes EXCEPT ![p] =
                 IF ~get_ok
                 THEN [NoPass EXCEPT !.pc = "done", !.code = 500]
                 ELSE IF promotable_chunks = << >>
                 THEN [NoPass EXCEPT !.pc = "done", !.code = 200, !.ok = TRUE]
                 ELSE [NoPass EXCEPT !.pc = "got", !.list = promotable_chunks]]
           /\ UNCHANGED <<tbl, now, last, triggerVars, stageVars, ins>>

PassGet == \E p \in Invocations : PassGetOf(p)

\* the pass hands its list to ReplicaChunkPromoter.promote_chunks
PassPromote ==
    \E p \in Invocations, promoter_ok \in BOOLEAN :
        /\ passes[p].pc = "got"
        /\ passes' = [passes EXCEPT ![p] =
              IF promoter_ok
              THEN [@ EXCEPT !.pc = "promoted", !.promoted = TRUE]
              ELSE [@ EXCEPT !.pc = "done", !.code = 500]]
        /\ UNCHANGED <<tbl, now, last, triggerVars, stageVars, ins>>

\* the pass marks its list promoted and answers
PassMark ==
    \E p \in Invocations, mark_ok \in BOOLEAN :
        LET m == mark_chunks_promoted(tbl, passes[p].list, now)
        IN /\ passes[p].pc = "promoted"
           /\ tbl' = IF mark_ok THEN m.tbl ELSE tbl
           /\ passes' = [passes EXCEPT ![p] =
                 IF mark_ok
                 THEN [@ EXCEPT !.pc = "done", !.code = 200, !.ok = TRUE,
                                !.chunks_promoted = m.count]
                 ELSE [@ EXCEPT !.pc = "done", !.code = 500]]
           /\ UNCHANGED <<now, last, triggerVars, stageVars, ins>>

PromoteRaceNext == PassGet \/ PassPromote \/ PassMark

\* promote_chunks invocations running side by side, with nothing outside
\* them serializing the passes
PromoteRaceSpec == PromoteRaceInit /\ [][PromoteRaceNext]_vars

\* C19: nothing in promote_chunks keeps a pass from starting while another is
\* in flight: an idle invocation can always read the promotable list, and
\* while another pass holds a list it has not yet marked, that read returns
\* the very same list.
UnserializedPromotion ==
    \A p \in Invocations :
        passes[p].pc = "idle"
            => /\ ENABLED PassGetOf(p)
               /\ \A q \in Invocations \ {p} :
                     (/\ passes[q].pc \in {"got", "promoted"}
                      /\ AllStatus(tbl, Range(passes[q].list), STAGED))
                        => get_promotable_chunks(tbl) = passes[q].list

\* two passes have each invoked the promoter on the same non-empty list
DoublePromotionWitness ==
    \E p \in Invocations, q \in Invocations :
        /\ p # q
        /\ passes[p].promoted /\ passes[q].promoted
        /\ passes[p].list = passes[q].list
        /\ passes[p].list # << >>

\* the staged events for chunk i on the status topic
StagedEventsOf(messages, i) == {k \in 1..Len(messages) : messages[k] = StagedEvent(i)}

\* C21: every run of the Staging Job adds one copy of the chunk's rows to each
\* staging table it writes and leaves every other count as it was; a run whose
\* pipeline completes writes every non-empty table of the manifest; so n
\* completed runs for a chunk leave n copies, and no run removes or replaces
\* what an earlier run wrote.
AppendOnlyStaging ==
    [][job'.n = job.n + 1
          => /\ \A table \in Tables, i \in Ids :
                   staging'[table][i] =
                      IF i = job'.chunk /\ table \in job'.written
                      THEN staging[table][i] + 1
                      ELSE staging[table][i]
             /\ job'.result \in {"staged", "publish failed"}
                   => job'.written = TablesToLoad(manifests[job'.chunk])
             /\ \A table \in job'.attempted :
                   staging'[table][job'.chunk] >= Cardinality(StagedEventsOf(topic', job'.chunk))]_vars

\* the Staging Job completed twice for one chunk: two staged events were
\* published and each non-empty table holds two copies of the chunk's rows
RestagedWitness ==
    /\ job.n = 2 /\ job.result = "staged"
    /\ Cardinality(StagedEventsOf(topic, job.chunk)) = 2
    /\ manifests[job.chunk] # NoTableData
    /\ TablesToLoad(manifests[job.chunk]) # {}
    /\ \A table \in TablesToLoad(manifests[job.chunk]) : staging[table][job.chunk] = 2

\* ---------------------------------------------- promotion again and again
\* a pass of promote_chunks in which get_promotable_chunks, the promoter and
\* mark_chunks_promoted all return
PromotePassSucceeds ==
    \E promotable_chunks \in {get_promotable_chunks(tbl)} :
        \E m \in {mark_chunks_promoted(tbl, promotable_chunks, now)} :
            LET nothing == promotable_chunks = << >>
            IN /\ tbl' = IF nothing THEN tbl ELSE m.tbl
               /\ last' = [NoCall EXCEPT !.fn = "promote_chunks",
                                         !.outcome = "ok",
                                         !.promoter_arg = promotable_chunks,
                                         !.mark_arg = promotable_chunks,
                                         !.code = 200,
                                         !.ok = TRUE,
                                         !.chunks_promoted = IF nothing THEN 0 ELSE m.count]
               /\ UNCHANGED <<now, triggerVars, stageVars, concurrentVars>>

FairPromotionNext == HandleStatusEvent \/ PromotePassSucceeds

\* the tracker handling status events while the scheduler keeps calling the
\* promotion endpoint, one pass at a time, and every call of a pass succeeds
FairPromotionSpec ==
    Init /\ [][FairPromotionNext]_vars /\ WF_vars(PromotePassSucceeds)

\* chunk i is STAGED and every record with a lower id is STAGED or PROMOTED
Eligible(i) ==
    /\ HasRow(tbl, i) /\ Row(tbl, i).status = STAGED
    /\ \A j \in 1..(i - 1) : HasRow(tbl, j) => Row(tbl, j).status \in {STAGED, PROMOTED}

\* C22: with promotion passes that keep coming and succeed, every chunk that is
\* STAGED with all lower-id chunks STAGED or PROMOTED is eventually PROMOTED.
\* Read in the code's favour: or it stops being such a chunk before the next
\* pass, through a later event.
EventualPromotion ==
    \A i \in Ids :
        Eligible(i) ~> ((HasRow(tbl, i) /\ Row(tbl, i).status = PROMOTED) \/ ~Eligible(i))

\* what the registry holds once the staged update of chunk i and then the
\* insert event e of the same chunk have been handled
UpdateThenInsert(t, e) ==
    LET updated == track_chunk(t, StagedEvent(e.apdb_replica_chunk))
        inserted == track_chunk(updated.tbl, e)
    IN [updated |-> updated, inserted |-> inserted,
        again |-> track_chunk(inserted.tbl, StagedEvent(e.apdb_replica_chunk))]

\* C23 as stated: after the staged update and then the insert of a chunk have
\* been handled, the record is not STAGED and the chunk is not promotable.
LostStagedUpdateAsStated ==
    (/\ last.fn = "track_chunk" /\ last.operation = "insert"
     /\ last.outcome = "inserted" /\ last.lost)
        => /\ Row(tbl, last.chunk).status = last.status
           /\ Row(tbl, last.chunk).status # STAGED
           /\ last.chunk \notin Range(get_promotable_chunks(tbl))

\* C23: a staged update handled before the chunk's insert changes nothing and
\* raises nothing; once the insert has been handled too the record carries the
\* insert's status, and when that status is not STAGED the chunk is not
\* promotable until a further staged event is handled.
LostStagedUpdate ==
    /\ \A e \in InsertEvents :
          ~HasRow(tbl, e.apdb_replica_chunk)
             => LET r == UpdateThenInsert(tbl, e)
                    i == e.apdb_replica_chunk
                IN /\ r.updated.outcome = "no_rows" /\ r.updated.tbl = tbl
                   /\ ~r.updated.raised
                   /\ r.inserted.outcome = "inserted"
                   /\ Row(r.inserted.tbl, i).status = e.values.status
                   /\ e.values.status # STAGED
                         => /\ i \notin Range(get_promotable_chunks(r.inserted.tbl))
                            /\ Row(r.again.tbl, i).status = STAGED
    /\ (/\ last.fn = "track_chunk" /\ last.operation = "insert"
        /\ last.outcome = "inserted" /\ last.lost)
          => /\ Row(tbl, last.chunk).status = last.status
             /\ last.status # STAGED
                   => last.chunk \notin Range(get_promotable_chunks(tbl))

\* the staged update of a chunk was handled before its insert, the insert
\* said pending, and the chunk now blocks the promotion of a staged chunk above it
LostStagedUpdateWitness ==
    /\ last.fn = "track_chunk" /\ last.operation = "insert"
    /\ last.outcome = "inserted" /\ last.lost
    /\ last.status = PENDING
    /\ Row(tbl, last.chunk).status = PENDING
    /\ get_promotable_chunks(tbl) = << >>
    /\ \E j \in Ids : j > last.chunk /\ HasRow(tbl, j) /\ Row(tbl, j).status = STAGED

====
